---- MODULE Spec2Model ----
(***************************************************************************)
(* A model of the steam-cdn client.                                        *)
(*                                                                         *)
(*  - Spec: the server pool of InnerClient (src/src/cdn/inner.rs): the     *)
(*    Vec<(CDNServer, u32)> behind a tokio Mutex, pick_server,             *)
(*    server_penalty, remote_cmd and get_chunk, run by concurrent tasks    *)
(*    that may be dropped (cancelled) at every await.                      *)
(*  - SpecManifest: CDNClient::get_manifest (src/src/cdn/mod.rs) and       *)
(*    DepotManifest::decrypt_filenames (src/src/cdn/manifest/mod.rs).      *)
(***************************************************************************)
EXTENDS Integers, Sequences, FiniteSets, TLC

VARIABLES
    servers,      \* InnerClient.servers: sequence of [server, penalty]
    lock,         \* owner of the tokio Mutex around servers, or NoOwner
    pc,           \* per task: where its get_chunk call stands
    chosen,       \* per task: the server pick_server returned
    outcome,      \* per task: how the get_chunk call ended
    trace,        \* per task: history of the current call (see NoTrace)
    cdnServers,   \* CDNClient.servers (first generation client, no penalties)
    mpc,          \* where the get_manifest call stands
    mreq,         \* the get_manifest call in progress (server, key, history)
    manifest,     \* the DepotManifest the caller holds, or NoManifest
    mresult,      \* result of the last manifest operation, with its history
    cpc,          \* where the control-plane operation stands
    jobs,         \* the jobs the operation has sent over the connection, in order
    cres,         \* the operation, what the connection answered, its result
    dl            \* the download of one file: position, chunks, fetches, writes

vars == <<servers, lock, pc, chosen, outcome, trace,
          cdnServers, mpc, mreq, manifest, mresult, cpc, jobs, cres, dl>>

poolVars == <<servers, lock, pc, chosen, outcome, trace>>
manifestVars == <<cdnServers, mpc, mreq, manifest, mresult>>
controlVars == <<cpc, jobs, cres>>

-----------------------------------------------------------------------------
(* Bounds *)

\* The penalty counters are u32 and unbounded in practice; edge failures stop
\* once the penalties in the pool add up to this.
MaxPenalty == 3

\* Longest file list of a manifest.
MaxFiles == 2

-----------------------------------------------------------------------------
(* Server descriptors and directory responses *)

\* connection.cell_id(): the cell of this client.
CellId == 1

Tasks == {"t1", "t2"}

NoOwner == "none"
NoServer == [type |-> "", cell_id |-> 0, weighted_load |-> 0, host |-> ""]

Srv(t, c, w, h) == [type |-> t, cell_id |-> c, weighted_load |-> w, host |-> h]

LocalOther == Srv("OpenCache", CellId, 5, "local-open")
LocalCDN == Srv("CDN", CellId, 9, "local-cdn")
CdnA == Srv("CDN", 2, 3, "cdn-a")
CdnB == Srv("CDN", 2, 3, "cdn-b")
CacheC == Srv("SteamCache", 3, 1, "cache-c")
Foreign == Srv("OpenCache", 2, 0, "foreign-open")

\* What get_servers_for_steam_pipe may answer.
DirectoryResponses ==
    { <<>>,
      <<Foreign>>,
      <<CdnA, CdnB>>,
      <<CdnA, CacheC>>,
      <<LocalOther, CacheC>>,
      <<Foreign, CdnA>>,
      <<CdnA, LocalCDN>>,
      <<CdnA, CdnA>> }

-----------------------------------------------------------------------------
(* pick_server and server_penalty as functions of the pool *)

Entry(s, n) == [server |-> s, penalty |-> n]

\* .into_iter().map(|s| (s, 0)).collect()
\* (variant: a server that was already in the pool keeps its penalty)
WithKeptPenalty(resp) ==
    [i \in 1..Len(resp) |->
        Entry(resp[i],
              IF \E j \in 1..Len(servers) : servers[j].server = resp[i]
              THEN servers[CHOOSE j \in 1..Len(servers) : servers[j].server = resp[i]].penalty
              ELSE 0)]

WithZeroPenalty(resp) == [i \in 1..Len(resp) |-> Entry(resp[i], 0)]

Min(S) == CHOOSE x \in S : \A y \in S : x <= y

\* servers.is_empty() || servers.iter().all(|(_, penalty)| *penalty > 0)
\* (variant: only the empty pool is refreshed)
NeedRefreshEmptyOnly(pool) == Len(pool) = 0

\* (variant: every pick asks the directory)
NeedRefreshAlways(pool) == TRUE

NeedRefresh(pool) ==
    Len(pool) = 0 \/ \A i \in 1..Len(pool) : pool[i].penalty > 0

\* .find(|(server, penalty)| server.cell_id == self.cell_id() && *penalty == 0)
\* (variant: the current cell is given no preference)
LocalFreeIgnored(pool) == {}

LocalFree(pool) ==
    {i \in 1..Len(pool) : pool[i].server.cell_id = CellId /\ pool[i].penalty = 0}

\* .filter(|(s, _)| s.r#type == "SteamCache" || s.r#type == "CDN")
CdnTypes == {"SteamCache", "CDN"}

\* (variant: the type filter is missing)
EligibleAny(pool) == 1..Len(pool)

Eligible(pool) == {i \in 1..Len(pool) : pool[i].server.type \in CdnTypes}

\* the key of min_by_key: (penalty, weighted_load), compared lexicographically
\* (variant: the key is the weighted load alone)
KeyLessLoadOnly(a, b) == a.server.weighted_load < b.server.weighted_load

KeyLess(a, b) ==
    \/ a.penalty < b.penalty
    \/ a.penalty = b.penalty /\ a.server.weighted_load < b.server.weighted_load

\* Iterator::min_by_key returns the first of several equally small elements.
MinByKey(pool) ==
    Min({i \in Eligible(pool) :
            \A j \in Eligible(pool) : ~KeyLess(pool[j], pool[i])})

\* Lines 50-62 of pick_server: the selection over the (possibly refreshed) pool.
Select(pool) ==
    IF LocalFree(pool) # {} THEN [ok |-> TRUE, server |-> pool[Min(LocalFree(pool))].server]
    ELSE IF Eligible(pool) # {} THEN [ok |-> TRUE, server |-> pool[MinByKey(pool)].server]
    ELSE [ok |-> FALSE, server |-> NoServer]

\* servers.iter_mut().find(|(s, _)| s == server), then *penalty += 1
Matching(pool, d) == {i \in 1..Len(pool) : pool[i].server = d}

\* (variant: every entry equal to the descriptor is penalized)
ServerPenaltyAll(pool, d) ==
    [i \in 1..Len(pool) |->
        IF i \in Matching(pool, d) THEN [pool[i] EXCEPT !.penalty = @ + 1] ELSE pool[i]]

ServerPenalty(pool, d) ==
    IF Matching(pool, d) = {} THEN pool
    ELSE [pool EXCEPT ![Min(Matching(pool, d))].penalty = @ + 1]

PenaltySum(pool) ==
    LET RECURSIVE Sum(_)
        Sum(i) == IF i = 0 THEN 0 ELSE pool[i].penalty + Sum(i - 1)
    IN Sum(Len(pool))

-----------------------------------------------------------------------------
(* The get_chunk call of one task: InnerClient::get_chunk -> remote_cmd ->      *)
(* pick_server -> GET -> server_penalty.  pc values are the awaits of the code: *)
(*   "lock_wait"   pick_server:    self.servers.lock().await                    *)
(*   "refreshing"  pick_server:    get_servers_for_steam_pipe(..).await, guard  *)
(*                                 held                                         *)
(*   "sending"     remote_cmd:     self.web_client.get(url).send().await        *)
(*   "pen_wait"    server_penalty: self.servers.lock().await                    *)

\* History of the call in progress: the pool when pick_server took the guard,
\* the number of directory requests pick_server issued, the response status,
\* the number of server_penalty calls, whether the body reached
\* depot_chunk::decrypt_and_decompress, the await a cancellation hit, and the
\* directory response pick_server received.
NoTrace ==
    [picked |-> FALSE, callPool |-> <<>>, refreshes |-> 0, status |-> "none",
     penCalls |-> 0, piped |-> FALSE, cancelledAt |-> "none", response |-> <<>>]

\* What an edge GET may end in: a response with a success status and its body,
\* a response with a non-success status and its body, a failed send
\* (`send().await?`), or a success status whose body cannot be read
\* (`response.bytes().await?`).
Statuses == {"success", "non_success", "send_error", "body_error"}

TransportErrors == {"send_error", "body_error"}

\* tokio::sync::Mutex: lock().await completes only while nobody holds the guard.
\* (variant: the pool is not guarded)
GuardFreeAlways == TRUE

GuardFree == lock = NoOwner

\* The pool while the directory request is in flight: `*servers = ...` is only
\* assigned once the awaited response has arrived and been collected.
\* (variant: the pool is cleared before the request is sent)
PoolClearedWhileRefreshing(pool) == <<>>

PoolWhileRefreshing(pool) == pool

\* remote_cmd: `if !response.status().is_success() { self.server_penalty(..) }`
\* (variant: every response penalizes)
PenalizesAnyStatus(st) == st \in {"success", "non_success"}

Penalizes(st) == st = "non_success"

\* get_chunk: `if !response.status().is_success() { return Err(HttpStatus) }`
ChunkBodyPiped(st) == st = "success"

TypeOK ==
    /\ lock \in Tasks \cup {NoOwner}
    /\ \A t \in Tasks :
          /\ pc[t] \in {"idle", "lock_wait", "refreshing", "sending", "pen_wait", "done"}
          /\ outcome[t] \in {"none", "NoServers", "DirectoryErr", "Request",
                             "HttpStatus", "Pipeline", "Cancelled"}
    /\ \A i \in 1..Len(servers) : servers[i].penalty \in 0..MaxPenalty

InitPool ==
    /\ servers = <<>>
    /\ lock = NoOwner
    /\ pc = [t \in Tasks |-> "idle"]
    /\ chosen = [t \in Tasks |-> NoServer]
    /\ outcome = [t \in Tasks |-> "none"]
    /\ trace = [t \in Tasks |-> NoTrace]

\* get_chunk calls remote_cmd, which calls pick_server, which waits for the guard.
get_chunk_call(t) ==
    /\ pc[t] = "idle"
    /\ pc' = [pc EXCEPT ![t] = "lock_wait"]
    /\ UNCHANGED <<servers, lock, chosen, outcome, trace>>

\* The tail of pick_server (lines 50-62) and what remote_cmd does with it.
AfterSelect(t, pool, tr) ==
    LET r == Select(pool) IN
    /\ chosen' = [chosen EXCEPT ![t] = r.server]
    /\ pc' = [pc EXCEPT ![t] = IF r.ok THEN "sending" ELSE "done"]
    /\ outcome' = [outcome EXCEPT ![t] = IF r.ok THEN "none" ELSE "NoServers"]
    /\ trace' = [trace EXCEPT ![t] = [tr EXCEPT !.picked = TRUE]]

\* pick_server on a pool with an unpenalized entry: no await between taking the
\* guard and returning, the guard is dropped at the return.
pick_server_select(t) ==
    /\ pc[t] = "lock_wait"
    /\ GuardFree
    /\ ~NeedRefresh(servers)
    /\ AfterSelect(t, servers, [trace[t] EXCEPT !.callPool = servers])
    /\ UNCHANGED <<servers, lock>>

\* pick_server on an empty or fully penalized pool: the directory request is
\* issued and awaited with the guard held.
pick_server_refresh(t) ==
    /\ pc[t] = "lock_wait"
    /\ GuardFree
    /\ NeedRefresh(servers)
    /\ lock' = t
    /\ servers' = PoolWhileRefreshing(servers)
    /\ pc' = [pc EXCEPT ![t] = "refreshing"]
    /\ trace' = [trace EXCEPT ![t] =
                    [@ EXCEPT !.callPool = servers, !.refreshes = @ + 1]]
    /\ UNCHANGED <<chosen, outcome>>

\* The directory answers: the pool is replaced, selection runs, the guard drops.
pick_server_refreshed(t, resp) ==
    /\ pc[t] = "refreshing"
    /\ servers' = WithZeroPenalty(resp)
    /\ lock' = NoOwner
    /\ AfterSelect(t, servers', [trace[t] EXCEPT !.response = resp])

\* The pool after a directory request that failed: `?` returns before the
\* right-hand side of `*servers = ...` has a value to assign.
\* (variant: the pool is emptied first)
PoolEmptiedByFailedRefresh(pool) == <<>>

PoolAfterFailedRefresh(pool) == pool

\* The directory request fails: `.await?` returns the error, the guard drops.
pick_server_refresh_failed(t) ==
    /\ pc[t] = "refreshing"
    /\ lock' = NoOwner
    /\ servers' = PoolAfterFailedRefresh(servers)
    /\ pc' = [pc EXCEPT ![t] = "done"]
    /\ outcome' = [outcome EXCEPT ![t] = "DirectoryErr"]
    /\ UNCHANGED <<chosen, trace>>

\* Edge failures are only generated while the counters stay within MaxPenalty.
MayFail == PenaltySum(servers) + Cardinality({u \in Tasks : pc[u] = "pen_wait"}) < MaxPenalty

\* get_chunk lines 140-145, once remote_cmd has returned Ok(response): a
\* non-success status is returned as HttpStatus, any other body goes to
\* depot_chunk::decrypt_and_decompress, whose result is the call's result.
get_chunk_tail(t, tr) ==
    /\ pc' = [pc EXCEPT ![t] = "done"]
    /\ trace' = [trace EXCEPT ![t] = [tr EXCEPT !.piped = ChunkBodyPiped(tr.status)]]
    /\ outcome' = [outcome EXCEPT ![t] =
                      IF ChunkBodyPiped(tr.status) THEN "Pipeline" ELSE "HttpStatus"]

\* The edge answers (or the request fails): remote_cmd lines 123-128.
edge_response(t, st) ==
    /\ pc[t] = "sending"
    /\ st = "non_success" => MayFail
    /\ IF st \in TransportErrors
       THEN /\ pc' = [pc EXCEPT ![t] = "done"]
            /\ outcome' = [outcome EXCEPT ![t] = "Request"]
            /\ trace' = [trace EXCEPT ![t] = [@ EXCEPT !.status = st]]
       ELSE IF Penalizes(st)
       THEN /\ pc' = [pc EXCEPT ![t] = "pen_wait"]
            /\ trace' = [trace EXCEPT ![t] = [@ EXCEPT !.status = st]]
            /\ UNCHANGED outcome
       ELSE get_chunk_tail(t, [trace[t] EXCEPT !.status = st])
    /\ UNCHANGED <<servers, lock, chosen>>

\* The pool the selection of a pick ran on: the pool the call found, or the
\* directory response with all penalties 0 when the call refreshed.
PickPool(tr) == IF tr.refreshes = 0 THEN tr.callPool ELSE WithZeroPenalty(tr.response)

\* server_penalty works on the shared pool as it is when it holds the guard;
\* pick_server handed out a clone of the descriptor and nothing of the pool.
\* (variant: the pool as the request's pick left it is written back)
PoolAtPick(cur, atPick) == atPick

PoolUnderGuard(cur, atPick) == cur

\* server_penalty under the guard (taken and dropped without an await in
\* between), then remote_cmd returns the response to get_chunk.
server_penalty_step(t) ==
    /\ pc[t] = "pen_wait"
    /\ GuardFree
    /\ servers' = ServerPenalty(PoolUnderGuard(servers, PickPool(trace[t])), chosen[t])
    /\ get_chunk_tail(t, [trace[t] EXCEPT !.penCalls = @ + 1])
    /\ UNCHANGED <<lock, chosen>>

\* The future is dropped at an await: a held guard is dropped with it.
cancel(t) ==
    /\ pc[t] \in {"lock_wait", "refreshing", "sending", "pen_wait"}
    /\ pc' = [pc EXCEPT ![t] = "done"]
    /\ outcome' = [outcome EXCEPT ![t] = "Cancelled"]
    /\ trace' = [trace EXCEPT ![t] = [@ EXCEPT !.cancelledAt = pc[t]]]
    /\ lock' = IF lock = t THEN NoOwner ELSE lock
    /\ UNCHANGED <<servers, chosen>>

\* The caller takes the result; the task is free for its next call.
finish(t) ==
    /\ pc[t] = "done"
    /\ pc' = [pc EXCEPT ![t] = "idle"]
    /\ chosen' = [chosen EXCEPT ![t] = NoServer]
    /\ outcome' = [outcome EXCEPT ![t] = "none"]
    /\ trace' = [trace EXCEPT ![t] = NoTrace]
    /\ UNCHANGED <<servers, lock>>

NextPool ==
    \/ \E t \in Tasks : get_chunk_call(t) /\ UNCHANGED <<manifestVars, controlVars, dl>>
    \/ \E t \in Tasks : pick_server_select(t) /\ UNCHANGED <<manifestVars, controlVars, dl>>
    \/ \E t \in Tasks : pick_server_refresh(t) /\ UNCHANGED <<manifestVars, controlVars, dl>>
    \/ \E t \in Tasks, resp \in DirectoryResponses :
          pick_server_refreshed(t, resp) /\ UNCHANGED <<manifestVars, controlVars, dl>>
    \/ \E t \in Tasks : pick_server_refresh_failed(t) /\ UNCHANGED <<manifestVars, controlVars, dl>>
    \/ \E t \in Tasks, st \in Statuses : edge_response(t, st) /\ UNCHANGED <<manifestVars, controlVars, dl>>
    \/ \E t \in Tasks : server_penalty_step(t) /\ UNCHANGED <<manifestVars, controlVars, dl>>
    \/ \E t \in Tasks : cancel(t) /\ UNCHANGED <<manifestVars, controlVars, dl>>
    \/ \E t \in Tasks : finish(t) /\ UNCHANGED <<manifestVars, controlVars, dl>>

-----------------------------------------------------------------------------
(* Manifests: CDNClient::get_manifest and DepotManifest::decrypt_filenames *)

\* A file name of a manifest.  A plain name is UTF-8 text.  An encrypted name
\* is the base64 text of IV block + CBC ciphertext of `text` under `key`,
\* possibly defective: "base64" (not base64), "short" (fewer than 16 decoded
\* bytes), "padding" (bad PKCS#7 padding), "utf8" (plaintext is not UTF-8).
Plain(n) == [form |-> "plain", text |-> n, key |-> "", defect |-> "none"]
Enc(n, k, d) == [form |-> "enc", text |-> n, key |-> k, defect |-> d]

Keys == {"k1", "k2"}
NoKey == "nokey"

\* The file names of the model, numbered: a mapping of the payload section
\* carries the number of its name.
NameTable ==
    << Plain("a"), Enc("a", "k1", "none"), Enc("b", "k1", "none"),
       Enc("c", "k1", "base64"), Enc("d", "k1", "padding"),
       Enc("e", "k1", "utf8"), Enc("f", "k1", "short") >>

Names == {NameTable[c] : c \in DOMAIN NameTable}

FileLists == UNION {[1..n -> Names] : n \in 0..MaxFiles}

NoManifest == [files |-> <<>>, filenames_encrypted |-> FALSE, present |-> FALSE]

(* The manifest stream: the first entry of the archive the edge sends *)

PROTOBUF_PAYLOAD_MAGIC == 1911953360
PROTOBUF_METADATA_MAGIC == 524817086
PROTOBUF_SIGNATURE_MAGIC == 461486103
PROTOBUF_ENDOFMANIFEST_MAGIC == 851711403

\* The four bytes of a u32 in little-endian order, as the stream carries it.
U32LE(n) == <<n % 256, (n \div 256) % 256, (n \div 65536) % 256, (n \div 16777216) % 256>>

\* A byte no message of the model contains: a section body holding it is
\* rejected by the protobuf parser.
InvalidByte == 255

\* ContentManifestPayload as bytes: one byte per mapping, the number of its
\* file name.  ContentManifestMetadata: one byte, filenames_encrypted.
EncodePayload(files) ==
    [i \in 1..Len(files) |-> CHOOSE c \in DOMAIN NameTable : NameTable[c] = files[i]]

EncodeMetadata(e) == <<IF e THEN 1 ELSE 0>>

\* A section: its magic, the length of its body, the body.
Frame(magic, body) == U32LE(magic) \o U32LE(Len(body)) \o body

\* The first k sections of a well-formed manifest stream.
Sections(k, e, files) ==
    (IF k >= 1 THEN Frame(PROTOBUF_PAYLOAD_MAGIC, EncodePayload(files)) ELSE <<>>) \o
    (IF k >= 2 THEN Frame(PROTOBUF_METADATA_MAGIC, EncodeMetadata(e)) ELSE <<>>) \o
    (IF k >= 3 THEN Frame(PROTOBUF_SIGNATURE_MAGIC, <<>>) ELSE <<>>)

ManifestStream(e, files) == Sections(3, e, files) \o U32LE(PROTOBUF_ENDOFMANIFEST_MAGIC)

\* The magic expected at each of the four places, and the text its
\* MagicMismatch carries.
SectionMagic ==
    << PROTOBUF_PAYLOAD_MAGIC, PROTOBUF_METADATA_MAGIC,
       PROTOBUF_SIGNATURE_MAGIC, PROTOBUF_ENDOFMANIFEST_MAGIC >>

Expecting ==
    << "expecting protobuf payload", "expecting protobuf metadata",
       "expecting protobuf signature", "expecting end of manifest" >>

\* Damaged streams are cut from the stream of one file with an encrypted name.
DamagedFiles == <<NameTable[2]>>
DamagedBase == ManifestStream(TRUE, DamagedFiles)

\* Words that may stand where the magic of section k is expected: the magic
\* of another section, the right magic with its lowest bit flipped, all ones.
FlipBit(n) == IF n % 2 = 0 THEN n + 1 ELSE n - 1

WrongWords(k) ==
    ({U32LE(SectionMagic[j]) : j \in DOMAIN SectionMagic}
        \cup {U32LE(FlipBit(SectionMagic[k])), <<255, 255, 255, 255>>})
    \ {U32LE(SectionMagic[k])}

\* What may follow the damaged place.
Tails == {<<>>, <<InvalidByte>>, ManifestStream(FALSE, <<>>)}

WrongMagicStream(k, w, t) == Sections(k - 1, TRUE, DamagedFiles) \o w \o t

\* A section whose length prefix promises more bytes than follow.
OverlongStream(k, len) ==
    Sections(k - 1, TRUE, DamagedFiles) \o U32LE(SectionMagic[k]) \o len \o <<1>>

\* A section whose body is no protobuf message.
BadBodyStream(k, t) ==
    Sections(k - 1, TRUE, DamagedFiles) \o Frame(SectionMagic[k], <<InvalidByte>>) \o t

\* The sections of the damaged base one by one, the end magic being the
\* fourth, and streams that put them in any order: short, reordered, with a
\* section missing or repeated, or with a section after the end magic.
SectionFrame(k) ==
    IF k = 1 THEN Frame(PROTOBUF_PAYLOAD_MAGIC, EncodePayload(DamagedFiles))
    ELSE IF k = 2 THEN Frame(PROTOBUF_METADATA_MAGIC, EncodeMetadata(TRUE))
    ELSE IF k = 3 THEN Frame(PROTOBUF_SIGNATURE_MAGIC, <<>>)
    ELSE U32LE(PROTOBUF_ENDOFMANIFEST_MAGIC)

RECURSIVE SectionSeq(_)
SectionSeq(ks) ==
    IF ks = <<>> THEN <<>> ELSE SectionFrame(ks[1]) \o SectionSeq(SubSeq(ks, 2, Len(ks)))

Orders ==
    UNION {[1..n -> 1..4] : n \in 1..4} \cup {<<1, 2, 3, 4, k>> : k \in 1..4}

\* Those of them that do not begin with the four sections in order.
DisorderedStreams ==
    {SectionSeq(ks) : ks \in {o \in Orders : Len(o) < 4 \/ SubSeq(o, 1, 4) # <<1, 2, 3, 4>>}}

DamagedStreams ==
    UNION {{WrongMagicStream(k, w, t) : w \in WrongWords(k), t \in Tails} :
              k \in DOMAIN SectionMagic}
    \cup {SubSeq(DamagedBase, 1, n) : n \in 0..(Len(DamagedBase) - 1)}
    \cup {OverlongStream(k, len) : k \in 1..3, len \in {U32LE(2), <<255, 255, 255, 255>>}}
    \cup {BadBodyStream(k, t) : k \in 1..3, t \in Tails}
    \cup {DamagedBase \o t : t \in Tails}
    \cup {SectionSeq(ks) : ks \in Orders}

\* What the edge may send as a body: something that is no archive, or an
\* archive whose first entry is a well-formed or a damaged manifest stream.
NoArchive == [archive |-> FALSE, stream |-> <<>>]

ManifestBodies ==
    {NoArchive}
    \cup {[archive |-> TRUE, stream |-> ManifestStream(e, f)] : e \in BOOLEAN, f \in FileLists}
    \cup {[archive |-> TRUE, stream |-> d] : d \in DamagedStreams}

\* Bytes::try_get_u32 of the byte reader: a little-endian u32 and what is
\* left, or a short read.  A value of 2^31 or more is held as value - 2^32.
try_get_u32(bytes) ==
    IF Len(bytes) < 4 THEN [ok |-> FALSE, value |-> 0, rest |-> bytes]
    ELSE [ok |-> TRUE,
          value |-> bytes[1] + 256 * bytes[2] + 65536 * bytes[3]
                      + 16777216 * (IF bytes[4] < 128 THEN bytes[4] ELSE bytes[4] - 256),
          rest |-> SubSeq(bytes, 5, Len(bytes))]

\* Bytes::try_get_bytes: a u32 length L, then L bytes.
try_get_bytes(bytes) ==
    LET u == try_get_u32(bytes) IN
    IF ~u.ok \/ u.value < 0 \/ u.value > Len(u.rest)
    THEN [ok |-> FALSE, value |-> <<>>, rest |-> bytes]
    ELSE [ok |-> TRUE, value |-> SubSeq(u.rest, 1, u.value),
          rest |-> SubSeq(u.rest, u.value + 1, Len(u.rest))]

\* parse_from_bytes of the three messages.
ParsePayload(body) ==
    IF \A i \in 1..Len(body) : body[i] \in DOMAIN NameTable
    THEN [ok |-> TRUE, files |-> [i \in 1..Len(body) |-> NameTable[body[i]]]]
    ELSE [ok |-> FALSE, files |-> <<>>]

ParseMetadata(body) ==
    IF body \in {<<>>, <<0>>, <<1>>}
    THEN [ok |-> TRUE, filenames_encrypted |-> (body = <<1>>)]
    ELSE [ok |-> FALSE, filenames_encrypted |-> FALSE]

ParseSignature(body) == \A i \in 1..Len(body) : body[i] # InvalidByte

\* The magic of place k is checked where `bytes` begins.
MagicAnyOrder(bytes, k) ==
    LET u == try_get_u32(bytes) IN
    IF ~u.ok THEN [err |-> "TruncatedFrame", expecting |-> "", rest |-> bytes]
    ELSE IF u.value \notin {SectionMagic[j] : j \in DOMAIN SectionMagic}
         THEN [err |-> "MagicMismatch", expecting |-> Expecting[k], rest |-> u.rest]
    ELSE [err |-> "none", expecting |-> "", rest |-> u.rest]

\* (variant: the end magic is not asked for)
MagicNoEnd(bytes, k) ==
    LET u == try_get_u32(bytes) IN
    IF k = 4 THEN [err |-> "none", expecting |-> "", rest |-> bytes]
    ELSE IF ~u.ok THEN [err |-> "TruncatedFrame", expecting |-> "", rest |-> bytes]
    ELSE IF u.value # SectionMagic[k]
         THEN [err |-> "MagicMismatch", expecting |-> Expecting[k], rest |-> u.rest]
    ELSE [err |-> "none", expecting |-> "", rest |-> u.rest]

Magic(bytes, k) ==
    LET u == try_get_u32(bytes) IN
    IF ~u.ok THEN [err |-> "TruncatedFrame", expecting |-> "", rest |-> bytes]
    ELSE IF u.value # SectionMagic[k]
         THEN [err |-> "MagicMismatch", expecting |-> Expecting[k], rest |-> u.rest]
    ELSE [err |-> "none", expecting |-> "", rest |-> u.rest]

\* One pass of the loop body of decrypt_filenames (lines 151-165): base64,
\* the IV block, CBC with PKCS#7, UTF-8.  A plain name is not base64 text.
DecryptName(name, key) ==
    IF name.form = "plain" \/ name.defect = "base64" THEN [err |-> "Base64", name |-> name]
    ELSE IF name.defect = "short" THEN [err |-> "Panic", name |-> name]
    ELSE IF name.defect = "padding" \/ name.key # key THEN [err |-> "Padding", name |-> name]
    ELSE IF name.defect = "utf8" THEN [err |-> "Utf8", name |-> name]
    ELSE [err |-> "none", name |-> Plain(name.text)]

\* The loop of decrypt_filenames from file i on: each name is replaced in
\* place as soon as it is decrypted, `?` leaves the loop at the first error.
RECURSIVE DecryptLoop(_, _, _)
DecryptLoop(files, i, key) ==
    IF i > Len(files) THEN [err |-> "none", files |-> files]
    ELSE LET r == DecryptName(files[i], key) IN
         IF r.err # "none" THEN [err |-> r.err, files |-> files]
         ELSE DecryptLoop([files EXCEPT ![i] = r.name], i + 1, key)

\* DepotManifest::decrypt_filenames(&mut self, key): the manifest afterwards
\* and the error, if any.
decrypt_filenames(m, key) ==
    IF m.filenames_encrypted
    THEN LET r == DecryptLoop(m.files, 1, key) IN
         IF r.err = "none"
         THEN [err |-> "none",
               manifest |-> [m EXCEPT !.files = r.files, !.filenames_encrypted = FALSE]]
         ELSE [err |-> r.err, manifest |-> [m EXCEPT !.files = r.files]]
    ELSE [err |-> "none", manifest |-> m]

\* The result of a failed decode: no manifest, the error, the text of a
\* MagicMismatch, and how many bytes of the stream had been consumed.
DecodeFailed(err, expecting, read) ==
    [err |-> err, expecting |-> expecting, read |-> read, manifest |-> NoManifest]

\* DepotManifest::try_from(&bytes[..]): the archive is opened, then magic,
\* length-prefixed body and parse for payload, metadata and signature, then
\* the end magic; the manifest is built with the names as they came.
TryFrom(body) ==
    IF ~body.archive THEN DecodeFailed("Archive", "", 0)
    ELSE
    LET s == body.stream
        Read(rest) == Len(s) - Len(rest)
        m1 == Magic(s, 1)
        b1 == try_get_bytes(m1.rest)
        payload == ParsePayload(b1.value)
        m2 == Magic(b1.rest, 2)
        b2 == try_get_bytes(m2.rest)
        metadata == ParseMetadata(b2.value)
        m3 == Magic(b2.rest, 3)
        b3 == try_get_bytes(m3.rest)
        m4 == Magic(b3.rest, 4)
    IN  IF m1.err # "none" THEN DecodeFailed(m1.err, m1.expecting, Read(m1.rest))
        ELSE IF ~b1.ok THEN DecodeFailed("TruncatedFrame", "", Read(b1.rest))
        ELSE IF ~payload.ok THEN DecodeFailed("ProtobufDecode", "", Read(b1.rest))
        ELSE IF m2.err # "none" THEN DecodeFailed(m2.err, m2.expecting, Read(m2.rest))
        ELSE IF ~b2.ok THEN DecodeFailed("TruncatedFrame", "", Read(b2.rest))
        ELSE IF ~metadata.ok THEN DecodeFailed("ProtobufDecode", "", Read(b2.rest))
        ELSE IF m3.err # "none" THEN DecodeFailed(m3.err, m3.expecting, Read(m3.rest))
        ELSE IF ~b3.ok THEN DecodeFailed("TruncatedFrame", "", Read(b3.rest))
        ELSE IF ~ParseSignature(b3.value) THEN DecodeFailed("ProtobufDecode", "", Read(b3.rest))
        ELSE IF m4.err # "none" THEN DecodeFailed(m4.err, m4.expecting, Read(m4.rest))
        ELSE [err |-> "none", expecting |-> "", read |-> Read(m4.rest),
              manifest |-> [files |-> payload.files,
                            filenames_encrypted |-> metadata.filenames_encrypted,
                            present |-> TRUE]]

\* CDNClient::get_server: the first server of the current cell, else the
\* first of type "SteamCache" or "CDN".
get_server(list) ==
    LET local == {i \in 1..Len(list) : list[i].cell_id = CellId}
        cdn == {i \in 1..Len(list) : list[i].type \in CdnTypes}
    IN IF local # {} THEN [ok |-> TRUE, server |-> list[Min(local)]]
       ELSE IF cdn # {} THEN [ok |-> TRUE, server |-> list[Min(cdn)]]
       ELSE [ok |-> FALSE, server |-> NoServer]

\* History of the last manifest operation: which one, how it ended, the
\* response status, whether the response body was handed to
\* DepotManifest::try_from, how often the chosen server was penalized, and
\* the manifest as it was decoded or held before decrypt_filenames could run,
\* the depot key of the call, the stream handed to the decoder, and of a
\* failed decode the text of its MagicMismatch and the bytes consumed.
NoResult ==
    [op |-> "none", result |-> "none", status |-> "none", decoded |-> FALSE,
     penCalls |-> 0, pre |-> NoManifest, key |-> NoKey,
     stream |-> <<>>, expecting |-> "", read |-> 0]

NoRequest == [server |-> NoServer, key |-> NoKey]

\* CDNClient::new leaves the list empty, CDNClient::discover fills it.
InitManifest ==
    /\ cdnServers \in DirectoryResponses
    /\ mpc = "idle"
    /\ mreq = NoRequest
    /\ manifest = NoManifest
    /\ mresult = NoResult

\* get_manifest -> remote_cmd -> get_server, then the GET is sent.
get_manifest_call(key) ==
    /\ mpc = "idle"
    /\ manifest' = NoManifest
    /\ LET r == get_server(cdnServers) IN
       IF r.ok
       THEN /\ mpc' = "sending"
            /\ mreq' = [server |-> r.server, key |-> key]
            /\ mresult' = [NoResult EXCEPT !.op = "get_manifest"]
       ELSE /\ mpc' = "done"
            /\ mreq' = NoRequest
            /\ mresult' = [NoResult EXCEPT !.op = "get_manifest", !.result = "NoServers"]
    /\ UNCHANGED cdnServers

\* The condition of get_manifest under which decrypt_filenames is called: the
\* decoded manifest reports encrypted names and the caller gave a depot key.
ShouldDecryptNever(m, key) == FALSE

ShouldDecrypt(m, key) == m.filenames_encrypted /\ key # NoKey

\* remote_cmd returns whatever response arrived; get_manifest takes its bytes,
\* decodes them and decrypts the names when the flag is set and a key given.
get_manifest_response(st, body) ==
    /\ mpc = "sending"
    /\ mpc' = "done"
    /\ mreq' = NoRequest
    /\ IF st \in TransportErrors
       THEN /\ mresult' = [mresult EXCEPT !.status = st, !.result = "Request"]
            /\ UNCHANGED manifest
       ELSE LET d == TryFrom(body)
                x == decrypt_filenames(d.manifest, mreq.key)
                h == [mresult EXCEPT !.status = st, !.decoded = TRUE,
                                     !.key = mreq.key, !.stream = body.stream,
                                     !.read = d.read]
            IN IF d.err # "none"
               THEN /\ mresult' = [h EXCEPT !.result = d.err, !.expecting = d.expecting]
                    /\ UNCHANGED manifest
               ELSE IF ShouldDecrypt(d.manifest, mreq.key)
               THEN /\ mresult' = [h EXCEPT !.pre = d.manifest,
                                            !.result = IF x.err = "none" THEN "Ok" ELSE x.err]
                    /\ manifest' = IF x.err = "none" THEN x.manifest ELSE NoManifest
               ELSE /\ mresult' = [h EXCEPT !.pre = d.manifest, !.result = "Ok"]
                    /\ manifest' = d.manifest
    /\ UNCHANGED cdnServers

\* The caller takes the result of get_manifest.
manifest_finish ==
    /\ mpc = "done"
    /\ mpc' = "idle"
    /\ UNCHANGED <<cdnServers, mreq, manifest, mresult>>

\* The caller runs decrypt_filenames on the manifest it holds.  A panic
\* unwinds through the caller, which loses the manifest.
decrypt_filenames_call(key) ==
    /\ mpc = "idle"
    /\ manifest.present
    /\ LET x == decrypt_filenames(manifest, key) IN
       /\ manifest' = IF x.err = "Panic" THEN NoManifest ELSE x.manifest
       /\ mresult' = [NoResult EXCEPT !.op = "decrypt_filenames", !.pre = manifest,
                                      !.key = key,
                                      !.result = IF x.err = "none" THEN "Ok" ELSE x.err]
    /\ UNCHANGED <<cdnServers, mpc, mreq>>

NextManifest ==
    \/ \E key \in Keys \cup {NoKey} : get_manifest_call(key) /\ UNCHANGED <<poolVars, controlVars, dl>>
    \/ \E st \in Statuses, body \in ManifestBodies :
          get_manifest_response(st, body) /\ UNCHANGED <<poolVars, controlVars, dl>>
    \/ manifest_finish /\ UNCHANGED <<poolVars, controlVars, dl>>
    \/ \E key \in Keys : decrypt_filenames_call(key) /\ UNCHANGED <<poolVars, controlVars, dl>>

\* The pool specification leaves the manifest side in its state after
\* CDNClient::new; the manifest specification leaves the pool as constructed.
IdleManifest ==
    /\ cdnServers = <<>>
    /\ mpc = "idle"
    /\ mreq = NoRequest
    /\ manifest = NoManifest
    /\ mresult = NoResult


-----------------------------------------------------------------------------
(* Control plane: product info, depots, depot keys *)

MaxApps == 2

AppIds == {10, 20}

AppLists == UNION {[1..n -> AppIds] : n \in 0..MaxApps}

\* An Option<T> is the empty set or the set of its value.
None == {}
Some(x) == {x}

\* The access token the control plane holds for an app.
TokenOf(app_id) == app_id + 1

\* CMsgClientPICSAccessTokenResponse.app_access_tokens: tokens for the first
\* n of the requested apps; the control plane may grant fewer than asked.
TokenResponses(app_ids) ==
    {[i \in 1..n |-> [appid |-> Some(app_ids[i]), access_token |-> Some(TokenOf(app_ids[i]))]] :
        n \in 0..Len(app_ids)}

AccessTokenRequest(app_ids) == [kind |-> "PICSAccessTokenRequest", appids |-> app_ids]

ProductInfoRequest(apps) ==
    [kind |-> "PICSProductInfoRequest", apps |-> apps, meta_data_only |-> Some(FALSE)]

\* The apps of the product-info request of InnerClient::get_product_info,
\* one per granted token, and of CDNClient::get_product_info, one per app id.
AppsOfTokens(tokens) ==
    [i \in 1..Len(tokens) |-> [appid |-> tokens[i].appid, access_token |-> tokens[i].access_token]]

AppsOfIds(app_ids) ==
    [i \in 1..Len(app_ids) |-> [appid |-> Some(app_ids[i]), access_token |-> None]]

NoControl ==
    [op |-> "none", app_ids |-> <<>>, tokens |-> <<>>, token_call |-> "none",
     call |-> "none", apps |-> <<>>, key |-> None, result |-> "none", depots |-> <<>>, value |-> None]

IdleControl ==
    /\ cpc = "idle"
    /\ jobs = <<>>
    /\ cres = NoControl

\* InnerClient::get_product_info: the access-token job is sent and awaited.
inner_get_product_info_call(app_ids) ==
    /\ cpc = "idle"
    /\ cpc' = "token_wait"
    /\ jobs' = <<AccessTokenRequest(app_ids)>>
    /\ cres' = [NoControl EXCEPT !.op = "inner_get_product_info", !.app_ids = app_ids]

\* The token job ends: `?` returns its error, else the product-info job is
\* sent with the apps of the token response.
access_token_response(ok, tokens) ==
    /\ cpc = "token_wait"
    /\ IF ok
       THEN /\ cpc' = "info_wait"
            /\ jobs' = Append(jobs, ProductInfoRequest(AppsOfTokens(tokens)))
            /\ cres' = [cres EXCEPT !.tokens = tokens, !.token_call = "ok"]
       ELSE /\ cpc' = "done"
            /\ jobs' = jobs
            /\ cres' = [cres EXCEPT !.token_call = "failed", !.result = "Network"]

\* CDNClient::get_depots calls CDNClient::get_product_info, which sends the
\* product-info job for the app ids it was given.
get_depots_call(app_ids) ==
    /\ cpc = "idle"
    /\ cpc' = "info_wait"
    /\ jobs' = <<ProductInfoRequest(AppsOfIds(app_ids))>>
    /\ cres' = [NoControl EXCEPT !.op = "get_depots", !.app_ids = app_ids]

\* The buffer of an app of the product-info response: whether it is UTF-8,
\* whether its text is key-value text, whether the tree has a "depots" object,
\* and the entries of that object in order.  An entry has its key and the
\* shape of its value: "ok" (an object whose manifests subtree, if any, maps
\* branches to objects) or "malformed".
Buffer(utf8, vdf, has_depots, entries) ==
    [utf8 |-> utf8, vdf |-> vdf, has_depots |-> has_depots, entries |-> entries]

Buffers ==
    { Buffer(FALSE, FALSE, FALSE, <<>>),
      Buffer(TRUE, FALSE, FALSE, <<>>),
      Buffer(TRUE, TRUE, FALSE, <<>>),
      Buffer(TRUE, TRUE, TRUE, <<[key |-> "baselanguages", shape |-> "malformed"],
                                 [key |-> "731", shape |-> "ok"]>>),
      Buffer(TRUE, TRUE, TRUE, <<[key |-> "731", shape |-> "ok"],
                                 [key |-> "732", shape |-> "malformed"]>>) }

ProductInfoResponses ==
    UNION {[1..n -> [appid : AppIds, buffer : Buffers]] : n \in 0..MaxApps}

\* key.parse::<u32>() on the keys of the model.
DepotIds == ("731" :> 731) @@ ("732" :> 732)

\* `if let Ok(vdf) = str::from_utf8(app.buffer())`: the app is passed over
\* when the pattern does not match.
SkippedUnparsable(b) == ~b.utf8 \/ ~b.vdf

Skipped(b) == ~b.utf8

\* The loop over depots_map from entry i on: an entry with a numeric key
\* becomes a Depot, Depot::parse fails on a malformed value.
RECURSIVE DepotsLoop(_, _, _, _)
DepotsLoop(appid, entries, i, acc) ==
    IF i > Len(entries) THEN [err |-> "none", depots |-> acc]
    ELSE IF entries[i].key \notin DOMAIN DepotIds
         THEN DepotsLoop(appid, entries, i + 1, acc)
    ELSE IF entries[i].shape # "ok" THEN [err |-> "NoneOption", depots |-> acc]
    ELSE DepotsLoop(appid, entries, i + 1,
                    Append(acc, [app_id |-> appid, depot_id |-> DepotIds[entries[i].key]]))

\* The loop of get_depots over product_info.apps from app i on.
RECURSIVE AppsLoop(_, _, _)
AppsLoop(apps, i, acc) ==
    IF i > Len(apps) THEN [err |-> "none", depots |-> acc]
    ELSE LET b == apps[i].buffer
             d == DepotsLoop(apps[i].appid, b.entries, 1, acc)
         IN IF Skipped(b) THEN AppsLoop(apps, i + 1, acc)
            ELSE IF ~b.vdf THEN [err |-> "InvalidVDF", depots |-> acc]
            ELSE IF ~b.has_depots THEN [err |-> "NoneOption", depots |-> acc]
            ELSE IF d.err # "none" THEN d
            ELSE AppsLoop(apps, i + 1, d.depots)

\* The product-info job ends.  InnerClient::get_product_info returns the
\* response; get_depots walks its apps and returns the depots or the error.
product_info_response(ok, apps) ==
    /\ cpc = "info_wait"
    /\ cpc' = "done"
    /\ jobs' = jobs
    /\ IF ~ok THEN cres' = [cres EXCEPT !.call = "failed", !.result = "Network"]
       ELSE IF cres.op = "inner_get_product_info"
       THEN cres' = [cres EXCEPT !.call = "ok", !.apps = apps, !.result = "Ok"]
       ELSE LET r == AppsLoop(apps, 1, <<>>) IN
            cres' = [cres EXCEPT !.call = "ok", !.apps = apps,
                                 !.result = IF r.err = "none" THEN "Ok" ELSE r.err,
                                 !.depots = IF r.err = "none" THEN r.depots ELSE <<>>]

\* The size of a depot key, and the key blobs the control plane may answer
\* with: of no, one, 31, 32 and 33 bytes, two of each size.
DepotKeyLen == 32

KeyBlobs ==
    {[i \in 1..n |-> (seed * i) % 256] :
        n \in {0, 1, DepotKeyLen - 1, DepotKeyLen, DepotKeyLen + 1}, seed \in {3, 5}}

\* The guard of the first match arm of get_depot_decryption_key.
KeySizeAtLeast(bytes) == Len(bytes) >= DepotKeyLen

KeySizeOk(bytes) == Len(bytes) = DepotKeyLen

\* `key.copy_from_slice(&bytes[..])` into a [u8; 32].
KeyArray(bytes) == [i \in 1..DepotKeyLen |-> bytes[i]]

\* get_depot_decryption_key: the job is sent and awaited.
get_depot_decryption_key_call(app_id, depot_id) ==
    /\ cpc = "idle"
    /\ cpc' = "key_wait"
    /\ jobs' = <<[kind |-> "GetDepotDecryptionKey", app_id |-> Some(app_id),
                  depot_id |-> Some(depot_id)]>>
    /\ cres' = [NoControl EXCEPT !.op = "get_depot_decryption_key"]

\* The job ends: `?` returns its error, else the match on
\* response.depot_encryption_key decides.
depot_key_response(ok, key) ==
    /\ cpc = "key_wait"
    /\ cpc' = "done"
    /\ jobs' = jobs
    /\ IF ~ok THEN cres' = [cres EXCEPT !.call = "failed", !.result = "Network"]
       ELSE LET h == [cres EXCEPT !.call = "ok", !.key = key]
                bytes == CHOOSE b \in key : TRUE
            IN IF key = None THEN cres' = [h EXCEPT !.result = "Ok"]
               ELSE IF KeySizeOk(bytes)
               THEN cres' = [h EXCEPT !.result = "Ok", !.value = Some(KeyArray(bytes))]
               ELSE cres' = [h EXCEPT !.result = "Unexpected"]

\* The caller takes the result of the operation.
control_finish ==
    /\ cpc = "done"
    /\ cpc' = "idle"
    /\ jobs' = <<>>
    /\ cres' = NoControl

NextControl ==
    \/ \E app_ids \in AppLists :
          inner_get_product_info_call(app_ids) /\ UNCHANGED <<poolVars, manifestVars, dl>>
    \/ \E ok \in BOOLEAN, tokens \in TokenResponses(cres.app_ids) :
          access_token_response(ok, tokens) /\ UNCHANGED <<poolVars, manifestVars, dl>>
    \/ \E app_ids \in AppLists :
          get_depots_call(app_ids) /\ UNCHANGED <<poolVars, manifestVars, dl>>
    \/ \E ok \in BOOLEAN, apps \in ProductInfoResponses :
          product_info_response(ok, apps) /\ UNCHANGED <<poolVars, manifestVars, dl>>
    \/ \E app_id \in AppIds, depot_id \in {DepotIds[k] : k \in DOMAIN DepotIds} :
          get_depot_decryption_key_call(app_id, depot_id) /\ UNCHANGED <<poolVars, manifestVars, dl>>
    \/ \E ok \in BOOLEAN, key \in {None} \cup {Some(b) : b \in KeyBlobs} :
          depot_key_response(ok, key) /\ UNCHANGED <<poolVars, manifestVars, dl>>
    \/ control_finish /\ UNCHANGED <<poolVars, manifestVars, dl>>

-----------------------------------------------------------------------------
(* Download of one file of a manifest, chunk by chunk *)

MaxChunks == 3

\* The plaintext of chunk k, of k bytes.
ChunkBytes(k) == [i \in 1..k |-> k + i]

\* CRC-32 of the decoded bytes, as a checksum over the bytes in order.
RECURSIVE Crc32(_)
Crc32(data) ==
    IF data = <<>> THEN 0
    ELSE (31 * Crc32(SubSeq(data, 1, Len(data) - 1)) + data[Len(data)] + 1) % 65521

\* The descriptor of chunk k: its chunks are laid out one after another.
Chunk(k) ==
    [sha |-> k, crc |-> Crc32(ChunkBytes(k)), offset |-> (k * (k - 1)) \div 2,
     original_size |-> Len(ChunkBytes(k))]

\* The chunk lists of the files of the model: any chunks in any order.
Files ==
    {f \in UNION {[1..n -> {Chunk(k) : k \in 1..MaxChunks}] : n \in 0..MaxChunks} :
        \A i, j \in DOMAIN f : i # j => f[i] # f[j]}

\* What fetching and decoding a chunk may yield: an error of the request or
\* of the chunk pipeline, the chunk's bytes, or other bytes: one byte changed,
\* one byte more, none at all.
PipelineResults(chunk) ==
    LET good == ChunkBytes(chunk.sha) IN
    {[err |-> e, data |-> <<>>] : e \in {"Request", "HttpStatus", "Pipeline"}}
    \cup {[err |-> "none", data |-> d] :
             d \in {good, [good EXCEPT ![1] = (@ + 1) % 256], Append(good, 0), <<>>}}

NoDownload ==
    [pc |-> "idle", chunks |-> <<>>, called_with |-> <<>>, i |-> 1, fetched |-> <<>>,
     data |-> <<>>, written |-> <<>>, result |-> "none"]

IdleDownload == dl = NoDownload

\* download(depot_key, None, writer) is called on a file.
download_call(file) ==
    /\ dl.pc = "idle"
    /\ dl' = [NoDownload EXCEPT !.chunks = file, !.called_with = file,
                                !.pc = IF file = <<>> THEN "done" ELSE "fetching",
                                !.result = IF file = <<>> THEN "Ok" ELSE "none"]

\* The two verifications of the decoded bytes against the descriptor.
SizeOk(data, chunk) == Len(data) = chunk.original_size

CrcUnchecked(data, chunk) == TRUE

CrcOk(data, chunk) == Crc32(data) = chunk.crc

\* The fetch of chunk i ends: an error, a size or a CRC mismatch ends the
\* download, else the bytes are handed to the writer.
chunk_fetched(r) ==
    /\ dl.pc = "fetching"
    /\ LET chunk == dl.chunks[dl.i]
           h == [dl EXCEPT !.fetched = Append(@, dl.i)]
       IN IF r.err # "none" THEN dl' = [h EXCEPT !.pc = "done", !.result = r.err]
          ELSE IF ~SizeOk(r.data, chunk)
               THEN dl' = [h EXCEPT !.pc = "done", !.result = "ChunkSizeMismatch"]
          ELSE IF ~CrcOk(r.data, chunk)
               THEN dl' = [h EXCEPT !.pc = "done", !.result = "ChunkCrcMismatch"]
          ELSE dl' = [h EXCEPT !.pc = "writing", !.data = r.data]

\* The writer is positioned at the chunk's offset and the bytes are written;
\* the loop goes on with the next chunk.
chunk_written ==
    /\ dl.pc = "writing"
    /\ dl' = [dl EXCEPT !.written = Append(@, [chunk |-> dl.i,
                                                offset |-> dl.chunks[dl.i].offset,
                                                bytes |-> dl.data]),
                        !.data = <<>>,
                        !.i = @ + 1,
                        !.pc = IF dl.i = Len(dl.chunks) THEN "done" ELSE "fetching",
                        !.result = IF dl.i = Len(dl.chunks) THEN "Ok" ELSE "none"]

\* The caller takes the result of the download.
download_finish ==
    /\ dl.pc = "done"
    /\ dl' = NoDownload

NextDownload ==
    \/ \E file \in Files :
          download_call(file) /\ UNCHANGED <<poolVars, manifestVars, controlVars>>
    \/ /\ dl.pc = "fetching"
       /\ \E r \in PipelineResults(dl.chunks[dl.i]) : chunk_fetched(r)
       /\ UNCHANGED <<poolVars, manifestVars, controlVars>>
    \/ chunk_written /\ UNCHANGED <<poolVars, manifestVars, controlVars>>
    \/ download_finish /\ UNCHANGED <<poolVars, manifestVars, controlVars>>

-----------------------------------------------------------------------------
(* Specifications *)

\* Each specification runs one part of the client and leaves the others as
\* constructed.
Init == InitPool /\ IdleManifest /\ IdleControl /\ IdleDownload

Next == NextPool

Spec == Init /\ [][Next]_vars

InitM == InitPool /\ InitManifest /\ IdleControl /\ IdleDownload

SpecManifest == InitM /\ [][NextManifest]_vars

SpecControl == Init /\ [][NextControl]_vars

SpecDownload == Init /\ [][NextDownload]_vars

-----------------------------------------------------------------------------
(* Properties of the server pool *)

\* pick_server has returned to remote_cmd (a server, no-servers, or the
\* directory error) in the call task t has in progress.
PickReturned(t) == trace[t].picked \/ outcome[t] = "DirectoryErr"

\* The pool holds an unpenalized entry of type "SteamCache" or "CDN".
HasFreeCdn(pool) == \E i \in Eligible(pool) : pool[i].penalty = 0

\* C1 as stated: whenever pick_server runs on a pool that holds an unpenalized
\* "SteamCache"/"CDN" entry, the entry it returns is of type "SteamCache" or
\* "CDN", also when an unpenalized entry of another type is in the current cell.
C1_PickReturnsCdnType ==
    \A t \in Tasks :
        trace[t].picked /\ HasFreeCdn(trace[t].callPool)
            => chosen[t].type \in CdnTypes

\* C2: a pick_server call on an empty or fully penalized pool has issued
\* exactly one directory request when it returns, whatever the directory
\* answered, and no pick_server call ever issues two.
C2_ExactlyOneRefresh ==
    \A t \in Tasks :
        /\ trace[t].refreshes <= 1
        /\ PickReturned(t) =>
              LET pool == trace[t].callPool
                  exhausted == pool = <<>> \/ \A i \in 1..Len(pool) : pool[i].penalty > 0
              IN exhausted => trace[t].refreshes = 1

C2_Witness ==
    \E t \in Tasks :
        /\ trace[t].picked /\ chosen[t] # NoServer
        /\ trace[t].callPool # <<>>
        /\ \A i \in 1..Len(trace[t].callPool) : trace[t].callPool[i].penalty > 0
        /\ trace[t].refreshes = 1

\* No entry of the pool can be selected: none is unpenalized in the current
\* cell and none is of type "SteamCache" or "CDN".
NothingSelectable(pool) ==
    /\ ~\E i \in 1..Len(pool) : pool[i].server.cell_id = CellId /\ pool[i].penalty = 0
    /\ ~\E i \in 1..Len(pool) : pool[i].server.type \in CdnTypes

\* C3 as stated: when pick_server is called on a pool that holds no selectable
\* server (also a non-empty one with an unpenalized, unselectable entry), it
\* refreshes once before it returns.
C3_RefreshWhenNothingSelectable ==
    \A t \in Tasks :
        PickReturned(t) /\ NothingSelectable(trace[t].callPool)
            => trace[t].refreshes = 1

\* C4: pick_server fails with the no-servers error exactly when the pool it
\* selects from (after the refresh check) holds no unpenalized entry of the
\* current cell and no "SteamCache"/"CDN" entry; after a refresh that returned
\* no server the pool is empty and the call has failed with that error.
C4_NoServersExactly ==
    /\ [](\A t \in Tasks : outcome[t] = "NoServers" => trace[t].picked /\ chosen[t] = NoServer)
    /\ [][\A t \in Tasks :
            ~trace[t].picked /\ trace'[t].picked =>
                /\ outcome'[t] = "NoServers" <=> NothingSelectable(servers')
                /\ pc[t] = "refreshing" /\ servers' = <<>> => outcome'[t] = "NoServers"]_vars

C4_Witness ==
    \E t \in Tasks :
        /\ outcome[t] = "NoServers"
        /\ trace[t].refreshes = 1
        /\ trace[t].callPool # <<>>
        /\ servers = <<>>

\* C5: at most one directory request is in flight, its issuer holds the guard,
\* and while it is in flight no other task's pick_server or server_penalty
\* acts and the pool changes only by being replaced as a whole by a directory
\* response with all penalties 0.
C5_RefreshExclusive ==
    /\ [](/\ Cardinality({t \in Tasks : pc[t] = "refreshing"}) <= 1
          /\ \A t \in Tasks : pc[t] = "refreshing" <=> lock = t)
    /\ [][\A q \in Tasks :
            pc[q] = "refreshing" =>
                /\ \A t \in Tasks \ {q} :
                      /\ trace'[t].picked => trace[t].picked
                      /\ trace'[t].penCalls <= trace[t].penCalls
                /\ servers' # servers =>
                      /\ pc'[q] # "refreshing"
                      /\ \E resp \in DirectoryResponses :
                            /\ Len(servers') = Len(resp)
                            /\ \A i \in 1..Len(resp) :
                                  servers'[i] = [server |-> resp[i], penalty |-> 0]]_vars

C5_Witness ==
    \E q \in Tasks, t \in Tasks :
        /\ pc[q] = "refreshing" /\ trace[q].callPool # <<>>
        /\ pc[t] = "pen_wait"

\* C6: a step that is not the completion of a refresh leaves the descriptors
\* and the length of the pool alone and changes a penalty by +1 or not at
\* all; the completion of a refresh replaces the pool in that one step and
\* every penalty is 0 after it.
C6_PenaltyMonotone ==
    [][\/ servers' = servers
       \/ /\ Len(servers') = Len(servers)
          /\ \A i \in 1..Len(servers) :
                /\ servers'[i].server = servers[i].server
                /\ servers'[i].penalty \in {servers[i].penalty, servers[i].penalty + 1}
          /\ \A t \in Tasks : pc[t] = "refreshing" => pc'[t] = "refreshing"
       \/ /\ \E t \in Tasks : pc[t] = "refreshing" /\ pc'[t] # "refreshing"
          /\ \A i \in 1..Len(servers') : servers'[i].penalty = 0]_vars

C6_Witness ==
    \E i \in 1..Len(servers) : servers[i].penalty >= 2

\* C7: a get_chunk call that got an edge response ends, for a non-success
\* status, with exactly one server_penalty call for the server it chose, the
\* HttpStatus error, and the body never passed to the chunk pipeline; for a
\* success status with no server_penalty call and the body passed to the
\* pipeline.  The server_penalty call raises the penalty of the chosen
\* server's entry by exactly one (when the pool still holds it) and the sum of
\* all penalties with it; a success response changes no penalty.
C7_ChunkStatusHandling ==
    /\ [](\A t \in Tasks :
            /\ trace[t].penCalls <= 1
            /\ trace[t].piped => trace[t].status = "success"
            /\ pc[t] = "done" /\ trace[t].status = "non_success" /\ outcome[t] # "Cancelled" =>
                  trace[t].penCalls = 1 /\ outcome[t] = "HttpStatus" /\ ~trace[t].piped
            /\ pc[t] = "done" /\ trace[t].status = "success" =>
                  trace[t].penCalls = 0 /\ outcome[t] = "Pipeline" /\ trace[t].piped)
    /\ [][\A t \in Tasks :
            /\ trace'[t].penCalls > trace[t].penCalls =>
                  /\ trace[t].status = "non_success"
                  /\ IF \E i \in 1..Len(servers) : servers[i].server = chosen[t]
                     THEN /\ PenaltySum(servers') = PenaltySum(servers) + 1
                          /\ \E i \in 1..Len(servers) :
                                /\ servers[i].server = chosen[t]
                                /\ servers'[i].penalty = servers[i].penalty + 1
                     ELSE servers' = servers
            /\ trace[t].status = "none" /\ trace'[t].status = "success" =>
                  servers' = servers]_vars

C7_Witness ==
    \E t \in Tasks :
        /\ outcome[t] = "HttpStatus"
        /\ trace[t].status = "non_success" /\ trace[t].penCalls = 1
        /\ \E i \in 1..Len(servers) : servers[i].server = chosen[t] /\ servers[i].penalty = 1

\* C9: dropping a get_chunk call while its pick_server waits for the guard or
\* for the directory response leaves the pool as it is, which during a refresh
\* is the pool pick_server found when it took the guard, and releases the
\* guard; the guard is never held by a call that is not refreshing.
C9_CancelLeavesPool ==
    /\ [](lock # NoOwner => pc[lock] = "refreshing" /\ servers = trace[lock].callPool)
    /\ [][\A t \in Tasks :
            outcome[t] # "Cancelled" /\ outcome'[t] = "Cancelled"
            /\ pc[t] \in {"lock_wait", "refreshing"} =>
                /\ servers' = servers
                /\ pc[t] = "refreshing" => servers' = trace[t].callPool /\ lock' = NoOwner
                /\ lock' # t]_vars

C9_Witness ==
    \E t \in Tasks :
        /\ outcome[t] = "Cancelled" /\ trace[t].cancelledAt = "refreshing"
        /\ trace[t].callPool # <<>> /\ servers = trace[t].callPool
        /\ lock = NoOwner

-----------------------------------------------------------------------------
(* Properties of the manifest operations *)

\* C8 as stated: when the edge answers the manifest GET with a non-2xx
\* status, get_manifest penalizes the chosen server, fails with HttpStatus,
\* and the response body is never handed to the manifest decoder.
C8_ManifestNon2xxRejected ==
    mresult.op = "get_manifest" /\ mresult.status = "non_success" =>
        /\ mresult.result = "HttpStatus"
        /\ ~mresult.decoded
        /\ mresult.penCalls = 1

\* C10 as stated: when decrypt_filenames fails on a file (bad base64, bad
\* padding, non-UTF-8 result), every file name of the manifest is still its
\* original encrypted value and filenames_encrypted is still true.
C10_FailedDecryptLeavesNames ==
    mresult.op = "decrypt_filenames" /\ mresult.result \in {"Base64", "Padding", "Utf8"} =>
        /\ manifest.present
        /\ manifest.filenames_encrypted
        /\ manifest.files = mresult.pre.files

\* C11: get_manifest decrypts the file names exactly when the decoded
\* manifest reports encrypted names and a depot key was given.  With a key a
\* successful result has the flag cleared and every name decrypted; without a
\* key the result is the decoded manifest, flag and names untouched; and
\* decrypt_filenames on a manifest whose flag is already false changes nothing.
C11_DecryptIffFlagAndKey ==
    /\ mresult.op = "get_manifest" /\ mresult.result = "Ok" =>
          /\ manifest.present
          /\ mresult.key = NoKey => manifest = mresult.pre
          /\ mresult.key # NoKey /\ ~mresult.pre.filenames_encrypted =>
                manifest = mresult.pre
          /\ mresult.key # NoKey /\ mresult.pre.filenames_encrypted =>
                /\ ~manifest.filenames_encrypted
                /\ Len(manifest.files) = Len(mresult.pre.files)
                /\ \A i \in 1..Len(manifest.files) :
                      /\ mresult.pre.files[i].form = "enc"
                      /\ mresult.pre.files[i].key = mresult.key
                      /\ manifest.files[i] = Plain(mresult.pre.files[i].text)
    /\ mresult.op = "decrypt_filenames" /\ ~mresult.pre.filenames_encrypted =>
          /\ mresult.result = "Ok"
          /\ manifest = mresult.pre

\* get_manifest with a depot key returned a manifest of two files whose names
\* arrived encrypted.
C11_Witness ==
    /\ mresult.op = "get_manifest" /\ mresult.result = "Ok"
    /\ mresult.key # NoKey
    /\ mresult.pre.filenames_encrypted
    /\ Len(mresult.pre.files) = MaxFiles
    /\ manifest.files # mresult.pre.files

\* C12: decoding reports the first failure in stream order.  A wrong magic
\* where section k is expected yields MagicMismatch with the text of that
\* section and nothing after the wrong word is read, whatever follows it; a
\* stream that ends inside a length prefix or a body, or whose length prefix
\* promises more than follows, yields TruncatedFrame; and no failed decode
\* produces a manifest.
C12_FirstFailureInStreamOrder ==
    mresult.op = "get_manifest" /\ mresult.decoded =>
        /\ \A k \in DOMAIN SectionMagic : \A w \in WrongWords(k), t \in Tails :
              mresult.stream = WrongMagicStream(k, w, t) =>
                  /\ mresult.result = "MagicMismatch"
                  /\ mresult.expecting = Expecting[k]
                  /\ mresult.read = Len(Sections(k - 1, TRUE, DamagedFiles)) + 4
        /\ \A k \in 1..3 :
              \A n \in (Len(Sections(k - 1, TRUE, DamagedFiles)) + 4)
                         ..(Len(Sections(k, TRUE, DamagedFiles)) - 1) :
                  mresult.stream = SubSeq(DamagedBase, 1, n) =>
                      mresult.result = "TruncatedFrame"
        /\ \A k \in 1..3, len \in {U32LE(2), <<255, 255, 255, 255>>} :
              mresult.stream = OverlongStream(k, len) =>
                  mresult.result = "TruncatedFrame"
        /\ mresult.result \in {"Archive", "MagicMismatch", "TruncatedFrame", "ProtobufDecode"} =>
              ~manifest.present

\* The decoder met the end magic where the signature was expected, with a
\* whole manifest stream behind it that was never read.
C12_Witness ==
    /\ mresult.op = "get_manifest" /\ mresult.result = "MagicMismatch"
    /\ mresult.expecting = "expecting protobuf signature"
    /\ mresult.stream = WrongMagicStream(3, U32LE(PROTOBUF_ENDOFMANIFEST_MAGIC),
                                         ManifestStream(FALSE, <<>>))
    /\ mresult.read < Len(mresult.stream)
    /\ ~manifest.present

\* C21: decoding succeeds only on a stream that begins with payload,
\* metadata, signature and end magic in this order, each of the first three
\* with its length-prefixed body: a stream with the sections reordered, one
\* repeated or one missing fails, and what follows the end magic is not read
\* and does not change the result.
C21_ExactSectionOrder ==
    mresult.op = "get_manifest" /\ mresult.decoded =>
        LET ok == mresult.result \notin {"Archive", "MagicMismatch", "TruncatedFrame",
                                         "ProtobufDecode"}
        IN /\ ok => /\ mresult.read <= Len(mresult.stream)
                    /\ SubSeq(mresult.stream, 1, mresult.read)
                          = ManifestStream(mresult.pre.filenames_encrypted, mresult.pre.files)
           /\ mresult.stream \in DisorderedStreams => ~ok
           /\ \A t \in Tails \cup {SectionFrame(k) : k \in 1..4} :
                 mresult.stream = DamagedBase \o t =>
                     /\ ok
                     /\ mresult.read = Len(DamagedBase)
                     /\ mresult.pre = [files |-> DamagedFiles, filenames_encrypted |-> TRUE,
                                       present |-> TRUE]

\* A stream with a second payload section after the end magic was decoded,
\* the decoder stopping at the end magic.
C21_Witness ==
    /\ mresult.op = "get_manifest" /\ mresult.result = "Ok"
    /\ mresult.stream = SectionSeq(<<1, 2, 3, 4, 1>>)
    /\ mresult.read < Len(mresult.stream)
    /\ manifest.present

-----------------------------------------------------------------------------
(* Properties of the control-plane operations *)

\* C13 as stated: a product-info job is sent only after the access-token job
\* of the same operation succeeded, it carries exactly the (appid,
\* access_token) pairs of the token response, fewer tokens giving fewer apps,
\* with meta_data_only = false; after a failed token job none is sent.
C13_TokensBeforeProductInfo ==
    /\ \A i \in DOMAIN jobs :
          jobs[i].kind = "PICSProductInfoRequest" =>
              /\ i = 2
              /\ jobs[1].kind = "PICSAccessTokenRequest"
              /\ jobs[1].appids = cres.app_ids
              /\ cres.token_call = "ok"
              /\ Len(jobs[i].apps) = Len(cres.tokens)
              /\ \A j \in DOMAIN cres.tokens :
                    /\ jobs[i].apps[j].appid = cres.tokens[j].appid
                    /\ jobs[i].apps[j].access_token = cres.tokens[j].access_token
              /\ jobs[i].meta_data_only = Some(FALSE)
    /\ cres.token_call = "failed" =>
          \A i \in DOMAIN jobs : jobs[i].kind # "PICSProductInfoRequest"

\* C14 as stated: an app whose buffer is not UTF-8 or not key-value text is
\* passed over and the depots of the other apps are returned; an app whose
\* buffer parses but whose depots or manifests subtree is malformed fails
\* the whole call with NoneOption and no depot is returned.
C14_UnparsableSkipped ==
    cres.op = "get_depots" /\ cres.call = "ok" =>
        LET apps == cres.apps
            Parsed == {i \in DOMAIN apps : apps[i].buffer.utf8 /\ apps[i].buffer.vdf}
            Numeric(i) == {k \in DOMAIN apps[i].buffer.entries :
                              apps[i].buffer.entries[k].key \in DOMAIN DepotIds}
            Malformed(i) == \/ ~apps[i].buffer.has_depots
                            \/ \E k \in Numeric(i) : apps[i].buffer.entries[k].shape # "ok"
            Produced == UNION {{[app_id |-> apps[i].appid,
                                 depot_id |-> DepotIds[apps[i].buffer.entries[k].key]] :
                                    k \in Numeric(i)} : i \in Parsed}
        IN IF \E i \in Parsed : Malformed(i)
           THEN cres.result = "NoneOption" /\ cres.depots = <<>>
           ELSE /\ cres.result = "Ok"
                /\ {cres.depots[n] : n \in DOMAIN cres.depots} = Produced

\* C14, amended: an app whose buffer is not UTF-8 is passed over.  The first
\* app in response order whose buffer is UTF-8 but unusable fails the whole
\* call, with InvalidVDF when it is not key-value text and with NoneOption
\* when its depots or manifests subtree is malformed, and no depot is
\* returned.  With no such app the depots of all UTF-8 apps are returned.
C14_FirstUnusableAppFails ==
    cres.op = "get_depots" /\ cres.call = "ok" =>
        LET apps == cres.apps
            Utf8 == {i \in DOMAIN apps : apps[i].buffer.utf8}
            Numeric(i) == {k \in DOMAIN apps[i].buffer.entries :
                              apps[i].buffer.entries[k].key \in DOMAIN DepotIds}
            Unusable == {i \in Utf8 :
                            \/ ~apps[i].buffer.vdf
                            \/ ~apps[i].buffer.has_depots
                            \/ \E k \in Numeric(i) : apps[i].buffer.entries[k].shape # "ok"}
            Produced == UNION {{[app_id |-> apps[i].appid,
                                 depot_id |-> DepotIds[apps[i].buffer.entries[k].key]] :
                                    k \in Numeric(i)} : i \in Utf8}
        IN IF Unusable # {}
           THEN /\ cres.result = IF apps[Min(Unusable)].buffer.vdf
                                 THEN "NoneOption" ELSE "InvalidVDF"
                /\ cres.depots = <<>>
           ELSE /\ cres.result = "Ok"
                /\ {cres.depots[n] : n \in DOMAIN cres.depots} = Produced

\* get_depots passed over an app whose buffer is not UTF-8 and returned the
\* depot of another app.
C14_Witness ==
    /\ cres.op = "get_depots" /\ cres.result = "Ok"
    /\ \E i \in DOMAIN cres.apps : ~cres.apps[i].buffer.utf8
    /\ cres.depots # <<>>

\* C15: get_depot_decryption_key returns Some(key) exactly when the response
\* carries a key of exactly 32 bytes, the array being those bytes; None
\* exactly when it carries no key; Unexpected exactly when it carries a key
\* of another length, zero included; and a failed job yields neither Some
\* nor None.
C15_DepotKeyExactly32 ==
    cres.op = "get_depot_decryption_key" /\ cpc = "done" =>
        /\ (cres.result = "Ok" /\ cres.value # None)
               <=> (cres.call = "ok" /\ \E b \in cres.key : Len(b) = DepotKeyLen)
        /\ \A v \in cres.value : Len(v) = DepotKeyLen /\ cres.key = Some(v)
        /\ (cres.result = "Ok" /\ cres.value = None)
               <=> (cres.call = "ok" /\ cres.key = None)
        /\ cres.result = "Unexpected"
               <=> (cres.call = "ok" /\ \E b \in cres.key : Len(b) # DepotKeyLen)
        /\ cres.call = "failed" => cres.result = "Network" /\ cres.value = None

\* The response carried a key of 32 bytes and the call returned it.
C15_Witness ==
    /\ cres.op = "get_depot_decryption_key" /\ cres.result = "Ok"
    /\ \E v \in cres.value : cres.key = Some(v) /\ Len(v) = DepotKeyLen

-----------------------------------------------------------------------------
(* Properties of the download *)

\* C16: within one download the chunks are processed strictly in file order.
\* Chunk i is written only after it was fetched and passed the size and CRC
\* checks and after chunks before it were written; the first chunk that fails
\* its fetch, size or CRC check ends the download, so that it and every later
\* chunk is never written and no later chunk is fetched; and the chunk list
\* of the manifest stays as it was.
C16_ChunksInFileOrder ==
    LET n == Len(dl.written)
        f == Len(dl.fetched)
    IN /\ dl.chunks = dl.called_with
       /\ \A j \in 1..f : dl.fetched[j] = j
       /\ f \in {n, n + 1}
       /\ \A j \in 1..n :
             /\ dl.written[j].chunk = j
             /\ dl.written[j].offset = dl.chunks[j].offset
             /\ Len(dl.written[j].bytes) = dl.chunks[j].original_size
             /\ Crc32(dl.written[j].bytes) = dl.chunks[j].crc
       /\ dl.result \notin {"none", "Ok"} => dl.pc = "done" /\ f = n + 1
       /\ dl.result = "Ok" => dl.pc = "done" /\ f = n /\ n = Len(dl.chunks)

\* A download of three chunks ended at its second chunk, whose bytes had the
\* right size and the wrong CRC: one chunk written, two fetched.
C16_Witness ==
    /\ dl.result = "ChunkCrcMismatch"
    /\ Len(dl.chunks) = 3
    /\ Len(dl.written) = 1
    /\ Len(dl.fetched) = 2

-----------------------------------------------------------------------------
(* Properties of pick_server and server_penalty, step by step *)

\* C17: a pick that finds an entry with penalty 0 in the pool issues no
\* directory request and leaves the pool as it is; a pick that refreshes
\* leaves the pool equal to the directory response, in response order, with
\* every penalty 0.
C17_PickFrame ==
    [][\A t \in Tasks :
          /\ ( /\ pc[t] = "lock_wait" /\ pc'[t] # "lock_wait"
               /\ outcome'[t] # "Cancelled"
               /\ \E i \in 1..Len(servers) : servers[i].penalty = 0 )
             => /\ servers' = servers
                /\ pc'[t] # "refreshing"
                /\ trace'[t].picked /\ trace'[t].refreshes = 0
          /\ ( pc[t] = "refreshing" /\ trace'[t].picked )
             => /\ Len(servers') = Len(trace'[t].response)
                /\ \A i \in 1..Len(servers') :
                      /\ servers'[i].server = trace'[t].response[i]
                      /\ servers'[i].penalty = 0
      ]_vars

\* A pick replaced a fully penalized pool of two servers by a response that
\* holds neither of them.
C17_Witness ==
    \E t \in Tasks :
        /\ trace[t].picked /\ trace[t].refreshes = 1
        /\ Len(trace[t].callPool) = 2 /\ Len(trace[t].response) = 2
        /\ \A i, j \in 1..2 : trace[t].callPool[i].server # trace[t].response[j]
        /\ servers = [i \in 1..2 |-> [server |-> trace[t].response[i], penalty |-> 0]]

C19_MinPenaltyThenLoad ==
    [][\A t \in Tasks :
          ~trace[t].picked /\ trace'[t].picked =>
              LET pool == servers'
                  L == {i \in 1..Len(pool) :
                           pool[i].server.cell_id = CellId /\ pool[i].penalty = 0}
                  E == {i \in 1..Len(pool) : pool[i].server.type \in {"SteamCache", "CDN"}}
                  Less(i, j) ==
                      \/ pool[i].penalty < pool[j].penalty
                      \/ /\ pool[i].penalty = pool[j].penalty
                         /\ pool[i].server.weighted_load < pool[j].server.weighted_load
              IN L = {} /\ E # {} =>
                    /\ pc'[t] = "sending"
                    /\ \E i \in E :
                          /\ chosen'[t] = pool[i].server
                          /\ \A j \in E : ~Less(j, i)
                          /\ \A j \in E : j < i => Less(i, j)
      ]_vars

\* Pick returned an unpenalized server of higher weighted load than a
\* penalized server of the pool.
C19_Witness ==
    \E t \in Tasks :
        /\ trace[t].picked /\ pc[t] = "sending" /\ trace[t].refreshes = 0
        /\ chosen[t].cell_id # CellId
        /\ \E i \in 1..Len(trace[t].callPool) :
              /\ trace[t].callPool[i].penalty > 0
              /\ trace[t].callPool[i].server.type \in {"SteamCache", "CDN"}
              /\ trace[t].callPool[i].server.weighted_load < chosen[t].weighted_load

\* C20: server_penalty(d) raises by exactly 1 the penalty of the first pool
\* entry whose descriptor equals d and changes nothing else: the other
\* entries, later entries equal to d among them, the order and the length
\* stay; with no entry equal to d the pool stays as it is; and it issues no
\* directory request.
C20_PenalizeFrame ==
    [][\A t \in Tasks :
          trace'[t].penCalls = trace[t].penCalls + 1 =>
              LET M == {i \in 1..Len(servers) : servers[i].server = chosen[t]} IN
              /\ Len(servers') = Len(servers)
              /\ \A i \in 1..Len(servers) : servers'[i].server = servers[i].server
              /\ M = {} => servers' = servers
              /\ M # {} =>
                    \E k \in M :
                        /\ \A j \in M : k <= j
                        /\ servers'[k].penalty = servers[k].penalty + 1
                        /\ \A i \in 1..Len(servers) :
                              i # k => servers'[i].penalty = servers[i].penalty
              /\ trace'[t].refreshes = trace[t].refreshes
              /\ pc'[t] # "refreshing"
              /\ lock' = lock
      ]_vars

\* The pool holds the same descriptor twice; one server_penalty call for it
\* penalized the first entry and left the second at 0.
C20_Witness ==
    \E t \in Tasks :
        /\ trace[t].penCalls = 1
        /\ Len(servers) = 2
        /\ servers[1].server = chosen[t] /\ servers[2].server = chosen[t]
        /\ servers[1].penalty = 1 /\ servers[2].penalty = 0

\* C22: when the directory request of a refresh fails, pick returns that
\* error without a server, the pool keeps exactly the entries and penalties it
\* had when the pick took the guard, and the guard is released; a pick on a
\* pool that is empty or fully penalized, as that pool still is, asks the
\* directory again.
C22_FailedRefreshKeepsPool ==
    [][\A t \in Tasks :
          /\ ( pc[t] = "refreshing" /\ outcome'[t] = "DirectoryErr" )
             => /\ servers' = servers
                /\ servers' = trace[t].callPool
                /\ \A i \in 1..Len(servers') : servers'[i].penalty > 0
                /\ lock = t /\ lock' = NoOwner
                /\ pc'[t] = "done" /\ ~trace'[t].picked /\ chosen'[t] = NoServer
          /\ ( /\ pc[t] = "lock_wait" /\ pc'[t] # "lock_wait"
               /\ outcome'[t] # "Cancelled"
               /\ \A i \in 1..Len(servers) : servers[i].penalty > 0 )
             => pc'[t] = "refreshing" /\ lock' = t /\ servers' = servers
      ]_vars

\* A refresh of a fully penalized pool failed, the pool is as it was, and the
\* pick of the other task is asking the directory again.
C22_Witness ==
    \E t \in Tasks, u \in Tasks :
        /\ outcome[t] = "DirectoryErr"
        /\ trace[t].callPool # <<>> /\ servers = trace[t].callPool
        /\ pc[u] = "refreshing" /\ lock = u
        /\ trace[u].callPool = trace[t].callPool

\* An entry no pick can return while its penalty is 0 and which therefore is
\* never penalized: not of a CDN type and not in the current cell.
NeverSelectable(e) == e.server.type \notin CdnTypes /\ e.server.cell_id # CellId

\* Every entry a pick can return is penalized, one such entry exists, and what
\* is left unpenalized can never be returned.  A failed request only raises a
\* penalty, so a pool stays in this class until it is refreshed.
OnlyUnselectableFree(pool) ==
    /\ \E i \in 1..Len(pool) : pool[i].server.type \in CdnTypes
    /\ \E i \in 1..Len(pool) : pool[i].penalty = 0
    /\ \A i \in 1..Len(pool) : pool[i].penalty = 0 => NeverSelectable(pool[i])

\* C23 as stated, in the form a finite run refutes: the pool is refreshed
\* although an entry that is never selectable keeps penalty 0, that is, a pick
\* that finds every entry it can return penalized asks the directory.  A pool
\* of that class leaves the class only by a refresh, so the refresh the claim
\* promises to a caller whose requests keep failing has to come from such a pick.
C23_UnselectableEntryDoesNotBlockRefresh ==
    [][\A t \in Tasks :
          ( /\ pc[t] = "lock_wait" /\ pc'[t] # "lock_wait"
            /\ outcome'[t] # "Cancelled"
            /\ OnlyUnselectableFree(servers) )
          => pc'[t] = "refreshing"
      ]_vars

\* C24: the pick and the penalize of one request are two guarded steps and
\* the pool may change between them.  The penalize adds 1 to what the first
\* entry equal to the request's server holds at that moment and touches nothing
\* else: when the pool still holds the descriptors the pick selected from, the
\* penalty becomes the value at the pick, plus what other requests added since,
\* plus 1, so that k requests failing on one server raise it by k; when the
\* pool was replaced in between, the equal entry of the new pool is raised if
\* there is one and the pool stays as it is otherwise.
C24_PenalizeOnCurrentPool ==
    [][\A t \in Tasks :
          trace'[t].penCalls = trace[t].penCalls + 1 =>
              LET P == PickPool(trace[t])
                  M == {i \in 1..Len(servers) : servers[i].server = chosen[t]}
                  Same == /\ Len(servers) = Len(P)
                          /\ \A i \in 1..Len(P) : servers[i].server = P[i].server
              IN /\ \E i \in 1..Len(P) : P[i].server = chosen[t]
                 /\ Len(servers') = Len(servers)
                 /\ \A i \in 1..Len(servers) :
                       /\ servers'[i].server = servers[i].server
                       /\ servers'[i].server # chosen[t] => servers'[i] = servers[i]
                 /\ M = {} => servers' = servers
                 /\ M # {} => PenaltySum(servers') = PenaltySum(servers) + 1
                 /\ Same =>
                       \E k \in M :
                           /\ \A j \in M : k <= j
                           /\ servers'[k].penalty
                                 = P[k].penalty + (servers[k].penalty - P[k].penalty) + 1
                           /\ \A u \in Tasks \ {t} :
                                 ( /\ pc[u] = "done" /\ trace[u].penCalls = 1
                                   /\ chosen[u] = chosen[t]
                                   /\ servers = ServerPenalty(P, chosen[t]) )
                                 => servers'[k].penalty = P[k].penalty + 2
      ]_vars

\* Both requests picked the same server from the same pool before either was
\* answered, both got a non-success response, and the penalty is 2 higher
\* than at the picks.
C24_Witness ==
    \E t \in Tasks : \E u \in Tasks \ {t} :
        /\ pc[t] = "done" /\ pc[u] = "done"
        /\ trace[t].penCalls = 1 /\ trace[u].penCalls = 1
        /\ chosen[t] = chosen[u]
        /\ PickPool(trace[t]) = PickPool(trace[u])
        /\ trace[u].refreshes = 0
        /\ \E k \in 1..Len(servers) :
              /\ servers[k].server = chosen[t]
              /\ Len(PickPool(trace[t])) = Len(servers)
              /\ servers[k].penalty = PickPool(trace[t])[k].penalty + 2

====
